---- MODULE Spec2Model ----
(***************************************************************************)
(* Model of psiturk_dataset/parser.py: the conversion of one teleoperation *)
(* log into an episode (convert_to_episode, handle_step, the field         *)
(* extractors) and the compaction of its reference_replay                  *)
(* (post_process_episode, merge_replay_data_for_action).                   *)
(*                                                                         *)
(* Python dicts are functions over a set of string keys; a missing key is  *)
(* a key outside DOMAIN, and reading it raises KeyError.  Python's None is *)
(* the value None below.  Strings are built as the code builds them, with  *)
(* concatenation.                                                          *)
(***************************************************************************)
EXTENDS Integers, Sequences, FiniteSets, TLC

VARIABLES
    n,                          \* rows of the csv reader consumed so far
    viewer_step,                \* convert_to_episode: viewer_step
    is_viewer_step_finished,    \* convert_to_episode: last return of handle_step
    episode,                    \* convert_to_episode: episode (a dict)
    reference_replay,           \* post_process_episode: its argument
    i,                          \* post_process_episode: i (0-based cursor)
    data,                       \* post_process_episode: data
    action_data_list,           \* post_process_episode: action_data_list
    post_processed_ref_replay,  \* post_process_episode: the output list
    visited,                    \* post_process_episode: the indices read, in order
    combo_map,                  \* post_process_episode: its local unique_action_combo_map
    instruction_list,           \* the module's global instruction_list
    unique_action_combo_map,    \* the module's global unique_action_combo_map
    all_episodes,               \* replay_to_episode: all_episodes["episodes"]
    file_paths,                 \* replay_to_episode: the files of the glob, each its rows
    files,                      \* replay_to_episode: files taken from the glob so far
    output,                     \* the dataset written by write_json, None before
    last_row,                   \* history: the row read last
    finish_seen,                \* history: handle_step has returned True in this file
    known_actions,              \* HabitatSimActionsSingleton._known_actions
    call,                       \* history: the last call on HabitatSimActions and its result
    metric,                     \* GrabSuccess._metric
    prev_gripped_object_id,     \* GrabSuccess.prev_gripped_object_id
    gripped_object_id,          \* the simulator's gripped_object_id
    gripped_since_reset,        \* history: an update since reset_metric saw an object gripped
    updates,                    \* history: update_metric calls since reset_metric, -1 before it
    timestep,                   \* DemonstrationSensor.timestep
    is_episode_active,          \* RearrangementTask._is_episode_active
    is_stop_called,             \* the task's is_stop_called
    demo_replay,                \* reference_replay of the task's current episode
    demo_action,                \* the last value DemonstrationSensor returned, None before
    observations,               \* history: observations since the last one taken while not active
    rollout_step,               \* trainer: each worker's index (step) in the rollouts loop
    wpc,                        \* trainer: each worker's place in the update
    num_done,                   \* trainer: the store's num_done
    update_no,                  \* trainer: each worker's update number
    rollout_steps,              \* history: rollout steps each worker collected in this update
    num_done_read,              \* history: num_done as read when the worker broke off, -1 if not
    adds,                       \* history: additions to num_done by each worker in this update
    sync_frac,                  \* trainer: RL.DDPPO.sync_frac, in tenths
    pc,                         \* position in the code
    err                         \* the exception that ended the call, or "none"

vars == <<n, viewer_step, is_viewer_step_finished, episode, reference_replay,
          i, data, action_data_list, post_processed_ref_replay, visited, combo_map,
          instruction_list, unique_action_combo_map, all_episodes, file_paths, files,
          output, last_row, finish_seen, known_actions, call, metric,
          prev_gripped_object_id, gripped_object_id, gripped_since_reset, updates,
          timestep, is_episode_active, is_stop_called, demo_replay, demo_action,
          observations, rollout_step, wpc, num_done, update_no, rollout_steps,
          num_done_read,
          adds, sync_frac, pc, err>>

\* ---------------------------------------------------------------- bounds
MaxRows == 7      \* rows read from one log file
MaxList == 4      \* length of a list handed directly to the merge function
MaxTag  == 2      \* distinct payload contents of a directly built record

\* ------------------------------------------------------- dicts and None
EmptyDict == [k \in {} |-> 0]

None == [None |-> TRUE]

SetField(d, k, v) == [x \in (DOMAIN d) \cup {k} |-> IF x = k THEN v ELSE d[x]]

Has(d, k) == k \in DOMAIN d

\* ------------------------------------------------------------ log rows
\* The payload column of row number t, by kind of row.  Every value of a
\* payload is tagged with its field and with t, so that a value found in an
\* output record tells which row and which field it was read from.
Val(field, t) == <<field, t>>

AgentStatePayload(t) ==
    [position |-> Val("agentPosition", t),
     rotation |-> Val("agentRotation", t),
     sensorData |-> Val("sensorData", t)]

ObjectStatesPayload(t) ==
    << [objectId |-> Val("objectId", t),
        translation |-> Val("translation", t),
        rotation |-> Val("objectRotation", t),
        motionType |-> Val("motionType", t)] >>

WithAgentState(d, agent, t) ==
    IF agent THEN SetField(d, "agentState", AgentStatePayload(t)) ELSE d

ActionPayload(action, agent, t) ==
    WithAgentState(
        [action |-> action,
         collision |-> Val("collision", t),
         objectUnderCrosshair |-> Val("objectUnderCrosshair", t),
         nearestObjectId |-> Val("nearestObjectId", t),
         grippedObjectId |-> Val("grippedObjectId", t),
         objectStates |-> ObjectStatesPayload(t)], agent, t)

GrabPayload(grab, release, agent, t) ==
    WithAgentState(
        [action |-> "grabReleaseObject",
         actionData |->
            [grabAction |-> grab,
             releaseAction |-> release,
             objectUnderCrosshair |-> Val("objectUnderCrosshair", t),
             grippedObjectId |-> Val("grippedObjectId", t),
             actionMeta |->
                [newObjectTranslation |-> Val("newObjectTranslation", t),
                 newObjectId |-> Val("newObjectId", t),
                 objectHandle |-> Val("objectHandle", t),
                 grippedObjectId |-> Val("metaGrippedObjectId", t)]],
         objectStates |-> ObjectStatesPayload(t)], agent, t)

PhysicsPayload(agent, t) ==
    WithAgentState(
        [objectUnderCrosshair |-> Val("objectUnderCrosshair", t),
         objectStates |-> ObjectStatesPayload(t)], agent, t)

EpisodePayloadWith(instruction, t) ==
    [sceneID |-> Val("sceneID", t),
     startState |-> [position |-> Val("startPosition", t),
                     rotation |-> Val("startRotation", t)],
     objects |-> << [objectId |-> Val("objectId", t),
                     objectHandle |-> Val("objectHandle", t),
                     position |-> Val("position", t),
                     rotation |-> Val("rotation", t),
                     motionType |-> Val("motionType", t),
                     objectIcon |-> Val("objectIcon", t),
                     isReceptacle |-> FALSE] >>,
     task |-> [instruction |-> instruction,
               goals |-> [objectToReceptacleMap |-> Val("objectToReceptacleMap", t)]]]

EpisodePayload(t) == EpisodePayloadWith("Place the object on the receptacle", t)

\* The kinds of row a log file of the model is made of.
RowKinds ==
    { [kind |-> "runStepViewer"],
      [kind |-> "runStepOther"],
      [kind |-> "setEpisode"],
      [kind |-> "handleAction", action |-> "turnLeft", agent |-> TRUE],
      [kind |-> "handleAction", action |-> "turnRight", agent |-> FALSE],
      [kind |-> "grabReleaseObject", grab |-> TRUE, release |-> FALSE, agent |-> TRUE],
      [kind |-> "stepPhysics", agent |-> TRUE],
      [kind |-> "stepPhysics", agent |-> FALSE],
      [kind |-> "finishStep"],
      [kind |-> "emptyPayload"],
      [kind |-> "badJson"],
      [kind |-> "shortRow"] }

\* The number of columns of a row: a short row lacks the payload column.
NumColumns(row) == IF row.kind = "shortRow" THEN 3 ELSE 4

Payload(row, t) ==
    CASE row.kind = "runStepViewer" -> [type |-> "runStep", step |-> "viewer"]
      [] row.kind = "runStepOther" -> [type |-> "runStep", step |-> "instructions"]
      [] row.kind = "setEpisode" ->
            [event |-> "setEpisode",
             data |-> [episode |-> IF Has(row, "instruction")
                                   THEN EpisodePayloadWith(row.instruction, t)
                                   ELSE EpisodePayload(t)]]
      [] row.kind = "handleAction" ->
            [event |-> "handleAction",
             data |-> ActionPayload(row.action, row.agent, t)]
      [] row.kind = "grabReleaseObject" ->
            [event |-> "handleAction",
             data |-> GrabPayload(row.grab, row.release, row.agent, t)]
      [] row.kind = "stepPhysics" ->
            [event |-> "stepPhysics", data |-> PhysicsPayload(row.agent, t)]
      [] row.kind = "finishStep" -> [type |-> "finishStep"]

\* The payload column as the csv reader yields it: a text, which is the
\* empty string for an empty column (the reader never yields None), and for
\* a well-formed text the JSON value it denotes.
Column(row, t) ==
    CASE row.kind = "emptyPayload" -> [text |-> "", wellformed |-> FALSE]
      [] row.kind = "badJson" -> [text |-> "{\"event\": ", wellformed |-> FALSE]
      [] OTHER -> [text |-> "json", wellformed |-> TRUE, value |-> Payload(row, t)]

\* The exception column_to_json raises on this column (json.loads on a text
\* that is not JSON), "none" when it returns.
column_to_json_raises(col) ==
    IF col = None THEN "none"
    ELSE IF col.wellformed THEN "none" ELSE "JSONDecodeError"

column_to_json(col) == IF col = None THEN None ELSE col.value

\* ------------------------------------------------------ field extractors
is_viewer_step(d) ==
    IF Has(d, "type") THEN d.type = "runStep" /\ d.step = "viewer" ELSE FALSE

get_object_states(d) ==
    [j \in 1..Len(d.objectStates) |->
        [object_id |-> d.objectStates[j].objectId,
         translation |-> d.objectStates[j].translation,
         rotation |-> d.objectStates[j].rotation,
         motion_type |-> d.objectStates[j].motionType]]

get_action(d) == IF d = None THEN "None" ELSE IF Has(d, "action") THEN d.action ELSE "None"

is_physics_step(action) == action = "stepPhysics"

AgentStateOf(d) ==
    [position |-> d.agentState.position,
     rotation |-> d.agentState.rotation,
     sensor_data |-> d.agentState.sensorData]

\* The exception parse_replay_data_for_action raises on this payload (lines
\* 88-93 read actionMeta when a flag is set), "none" when it returns.
parse_replay_data_for_action_raises(action, d) ==
    IF /\ action = "grabReleaseObject"
       /\ d.actionData.releaseAction \/ d.actionData.grabAction
       /\ ~Has(d.actionData, "actionMeta")
    THEN "KeyError"
    ELSE "none"

\* Lines 87-93 with the grab flag tested before the release flag.
parse_replay_data_for_action_grab_first(action, d) ==
    LET replay_data ==
            IF action = "grabReleaseObject"
            THEN [action |-> action,
                  is_grab_action |-> d.actionData.grabAction,
                  is_release_action |-> d.actionData.releaseAction,
                  object_under_cross_hair |-> d.actionData.objectUnderCrosshair,
                  gripped_object_id |-> d.actionData.grippedObjectId,
                  action_data |->
                     IF d.actionData.grabAction
                     THEN [gripped_object_id |-> d.actionData.actionMeta.grippedObjectId]
                     ELSE IF d.actionData.releaseAction
                     THEN [new_object_translation |-> d.actionData.actionMeta.newObjectTranslation,
                           new_object_id |-> d.actionData.actionMeta.newObjectId,
                           object_handle |-> d.actionData.actionMeta.objectHandle,
                           gripped_object_id |-> d.actionData.actionMeta.grippedObjectId]
                     ELSE EmptyDict]
            ELSE [action |-> action,
                  collision |-> d.collision,
                  object_under_cross_hair |-> d.objectUnderCrosshair,
                  nearest_object_id |-> d.nearestObjectId,
                  gripped_object_id |-> d.grippedObjectId]
    IN  IF Has(d, "agentState")
        THEN SetField(SetField(replay_data, "agent_state", AgentStateOf(d)),
                      "object_states", get_object_states(d))
        ELSE replay_data

parse_replay_data_for_action(action, d) ==
    LET replay_data ==
            IF action = "grabReleaseObject"
            THEN [action |-> action,
                  is_grab_action |-> d.actionData.grabAction,
                  is_release_action |-> d.actionData.releaseAction,
                  object_under_cross_hair |-> d.actionData.objectUnderCrosshair,
                  gripped_object_id |-> d.actionData.grippedObjectId,
                  action_data |->
                     IF d.actionData.releaseAction
                     THEN [new_object_translation |-> d.actionData.actionMeta.newObjectTranslation,
                           new_object_id |-> d.actionData.actionMeta.newObjectId,
                           object_handle |-> d.actionData.actionMeta.objectHandle,
                           gripped_object_id |-> d.actionData.actionMeta.grippedObjectId]
                     ELSE IF d.actionData.grabAction
                     THEN [gripped_object_id |-> d.actionData.actionMeta.grippedObjectId]
                     ELSE EmptyDict]
            ELSE [action |-> action,
                  collision |-> d.collision,
                  object_under_cross_hair |-> d.objectUnderCrosshair,
                  nearest_object_id |-> d.nearestObjectId,
                  gripped_object_id |-> d.grippedObjectId]
    IN  IF Has(d, "agentState")
        THEN SetField(SetField(replay_data, "agent_state", AgentStateOf(d)),
                      "object_states", get_object_states(d))
        ELSE replay_data

parse_replay_data_for_step_physics(d) ==
    LET replay_data ==
            [action |-> "stepPhysics",
             object_under_cross_hair |-> d.objectUnderCrosshair]
        with_agent ==
            IF Has(d, "agentState")
            THEN SetField(replay_data, "agent_state", AgentStateOf(d))
            ELSE replay_data
    IN  SetField(with_agent, "object_states", get_object_states(d))

\* ------------------------------------------------------------ handle_step
\* The episode dict after the setEpisode branch.
SetEpisode(ep, step, unique_id) ==
    LET d == step.data.episode
        objects == [j \in 1..Len(d.objects) |->
                       [object_id |-> d.objects[j].objectId,
                        object_template |-> d.objects[j].objectHandle,
                        position |-> d.objects[j].position,
                        rotation |-> d.objects[j].rotation,
                        motion_type |-> d.objects[j].motionType,
                        object_icon |-> d.objects[j].objectIcon,
                        is_receptacle |-> d.objects[j].isReceptacle]]
        object_receptacle_map ==
            IF Has(d.task, "goals") THEN d.task.goals.objectToReceptacleMap ELSE EmptyDict
    IN  [k \in (DOMAIN ep) \cup {"episode_id", "scene_id", "start_position",
                                 "start_rotation", "objects", "instruction",
                                 "goals", "reference_replay"} |->
            CASE k = "episode_id" -> unique_id
              [] k = "scene_id" -> d.sceneID
              [] k = "start_position" -> d.startState.position
              [] k = "start_rotation" -> d.startState.rotation
              [] k = "objects" -> objects
              [] k = "instruction" -> [instruction_text |-> d.task.instruction]
              [] k = "goals" -> [object_receptacle_map |-> object_receptacle_map]
              [] k = "reference_replay" -> << >>
              [] OTHER -> ep[k]]

StepEvent(step) == IF Has(step, "event") THEN step.event ELSE "None"

StepType(step) == IF Has(step, "type") THEN step.type ELSE "None"

\* The exception handle_step raises on this step, "none" when it returns.
handle_step_raises(step, ep) ==
    IF StepEvent(step) \in {"handleAction", "stepPhysics"} /\ ~Has(ep, "reference_replay")
    THEN "KeyError"
    ELSE "none"

\* Lines 161-169 with the record stamped with the id column of the row.
handle_step_stamps_id(step, ep, unique_id, timestamp) ==
    CASE StepEvent(step) = "setEpisode" -> SetEpisode(ep, step, unique_id)
      [] StepEvent(step) = "handleAction" ->
            SetField(ep, "reference_replay",
                Append(ep.reference_replay,
                       SetField(parse_replay_data_for_action(step.data.action, step.data),
                                "timestamp", unique_id)))
      [] is_physics_step(StepEvent(step)) ->
            SetField(ep, "reference_replay",
                Append(ep.reference_replay,
                       SetField(parse_replay_data_for_step_physics(step.data),
                                "timestamp", unique_id)))
      [] OTHER -> ep

\* The episode dict as handle_step leaves it.
handle_step(step, ep, unique_id, timestamp) ==
    CASE StepEvent(step) = "setEpisode" -> SetEpisode(ep, step, unique_id)
      [] StepEvent(step) = "handleAction" ->
            SetField(ep, "reference_replay",
                Append(ep.reference_replay,
                       SetField(parse_replay_data_for_action(step.data.action, step.data),
                                "timestamp", timestamp)))
      [] is_physics_step(StepEvent(step)) ->
            SetField(ep, "reference_replay",
                Append(ep.reference_replay,
                       SetField(parse_replay_data_for_step_physics(step.data),
                                "timestamp", timestamp)))
      [] OTHER -> ep

\* The value handle_step returns.
handle_step_returns(step) ==
    StepEvent(step) = "None" /\ StepType(step) = "finishStep"

\* ------------------------------------------- merge_replay_data_for_action
GrabKeys == <<"action_data", "is_grab_action", "is_release_action",
              "object_under_cross_hair", "gripped_object_id">>

\* Lines 213-215 with the last assignment left out.
MoveKeys_without_nearest == <<"collision", "object_under_cross_hair">>

MoveKeys == <<"collision", "object_under_cross_hair", "nearest_object_id">>

\* d with each key of keys overwritten by src's value.
RECURSIVE CopyFields(_, _, _)
CopyFields(d, src, keys) ==
    IF keys = << >> THEN d
    ELSE CopyFields(SetField(d, Head(keys), src[Head(keys)]), src, Tail(keys))

HasAll(d, keys) == \A j \in 1..Len(keys) : Has(d, keys[j])

\* Lines 219-223 without the "Twice" default.
new_action_name_concat(action, next_action) == action \o next_action

\* Lines 219-223 with the comparison inverted.
new_action_name_inverted(action, next_action) ==
    IF action = next_action THEN action \o next_action ELSE action \o "Twice"

\* Lines 219-223 with the two names in the other order.
new_action_name_swapped(action, next_action) ==
    IF action # next_action THEN next_action \o action ELSE action \o "Twice"

\* The name given to a list of three records.
new_action_name(action, next_action) ==
    IF action # next_action THEN action \o next_action ELSE action \o "Twice"

\* Lines 228-232 without the exit: the collision taken whatever the first
\* action is.
merge_raises_without_exit(l) ==
    LET action == l[1].action IN
    CASE Len(l) = 2 ->
            IF action = "grabReleaseObject"
            THEN IF HasAll(l[1], GrabKeys) THEN "none" ELSE "KeyError"
            ELSE IF HasAll(l[1], MoveKeys) THEN "none" ELSE "KeyError"
      [] Len(l) = 3 -> IF Has(l[2], "collision") THEN "none" ELSE "KeyError"
      [] OTHER -> "none"

\* The exception the merge raises on this list, "none" when it returns.
merge_raises(l) ==
    LET action == l[1].action IN
    CASE Len(l) = 2 ->
            IF action = "grabReleaseObject"
            THEN IF HasAll(l[1], GrabKeys) THEN "none" ELSE "KeyError"
            ELSE IF HasAll(l[1], MoveKeys) THEN "none" ELSE "KeyError"
      [] Len(l) = 3 ->
            IF action # "grabReleaseObject"
            THEN IF Has(l[2], "collision") THEN "none" ELSE "KeyError"
            ELSE "SystemExit"
      [] OTHER -> "none"

\* Lines 204-216 returning the first record instead of the last.
merge_two_returns_first(first_action_data, last_action_data) ==
    first_action_data

\* Lines 204-216: the value returned for a list of two records.
merge_two(first_action_data, last_action_data) ==
    LET action == first_action_data.action IN
    IF action = "grabReleaseObject"
    THEN CopyFields(SetField(last_action_data, "action", action),
                    first_action_data, GrabKeys)
    ELSE CopyFields(SetField(last_action_data, "action", action),
                    first_action_data, MoveKeys)

\* Lines 218-234 taking the collision of the first record.
merge_three_first_collision(first_action_data, next_action_data, last_action_data) ==
    SetField(SetField(last_action_data, "action",
                      new_action_name(first_action_data.action, next_action_data.action)),
             "collision", first_action_data.collision)

\* Lines 218-234: the value returned for a list of three records.
merge_three(first_action_data, next_action_data, last_action_data) ==
    SetField(SetField(last_action_data, "action",
                      new_action_name(first_action_data.action, next_action_data.action)),
             "collision", next_action_data.collision)

\* The value the merge returns on a (deep copied) list it does not raise on.
merge_replay_data_for_action(l) ==
    CASE Len(l) = 1 -> l[1]
      [] Len(l) = 2 -> merge_two(l[1], l[2])
      [] Len(l) = 3 -> merge_three(l[1], l[2], l[3])
      [] OTHER -> None

\* ------------------------------------------------- the simulator's side
action_vars == <<known_actions, call>>

measure_vars == <<metric, prev_gripped_object_id, gripped_object_id,
                  gripped_since_reset, updates>>

sensor_vars == <<timestep, is_episode_active, is_stop_called, demo_replay,
                 demo_action, observations>>

trainer_vars == <<rollout_step, wpc, num_done, update_no, rollout_steps,
                  num_done_read, adds, sync_frac>>

sim_vars == <<action_vars, measure_vars, sensor_vars, trainer_vars>>

\* actions.py lines 21-27.
DefaultHabitatSimActions ==
    [name \in {"STOP", "MOVE_FORWARD", "TURN_LEFT", "TURN_RIGHT", "LOOK_UP", "LOOK_DOWN"} |->
        CASE name = "STOP" -> 0
          [] name = "MOVE_FORWARD" -> 1
          [] name = "TURN_LEFT" -> 2
          [] name = "TURN_RIGHT" -> 3
          [] name = "LOOK_UP" -> 4
          [] name = "LOOK_DOWN" -> 5]

\* The singleton holds the default actions (actions.py lines 44-46, 92).
ActionsIdle ==
    /\ known_actions = DefaultHabitatSimActions
    /\ call = [op |-> "none"]

\* GrabSuccess as constructed (rearrangement.py lines 541-549).
MeasureIdle ==
    /\ metric = None
    /\ prev_gripped_object_id = -1
    /\ gripped_object_id = -1
    /\ gripped_since_reset = FALSE
    /\ updates = -1

\* DemonstrationSensor and RearrangementTask as constructed
\* (rearrangement.py lines 178-181, 588-590).
SensorIdle ==
    /\ timestep = 0
    /\ is_episode_active = FALSE
    /\ is_stop_called = FALSE
    /\ demo_replay = << >>
    /\ demo_action = None
    /\ observations = 0

\* No trainer runs.
TrainerIdle ==
    /\ rollout_step = << >>
    /\ wpc = << >>
    /\ num_done = 0
    /\ update_no = << >>
    /\ rollout_steps = << >>
    /\ num_done_read = << >>
    /\ adds = << >>
    /\ sync_frac = 0

\* The simulator's side as it is when the modules are imported.
SimIdle == ActionsIdle /\ MeasureIdle /\ SensorIdle /\ TrainerIdle

\* ------------------------------------------------------ convert_to_episode
post_vars == <<reference_replay, i, data, action_data_list,
               post_processed_ref_replay, visited, combo_map>>

read_vars == <<n, viewer_step, is_viewer_step_finished, instruction_list,
               last_row, finish_seen>>

batch_vars == <<unique_action_combo_map, all_episodes, file_paths, files, output>>

\* Lines 186-187 with the flag recomputed on every row.
viewer_step_recomputed(flag, step) == is_viewer_step(step)

\* Lines 186-187: viewer_step after this row.
viewer_step_after(flag, step) == IF ~flag THEN is_viewer_step(step) ELSE flag

\* The exception lines 181-184 raise on this row, "none" when they do not.
row_raises(row, t) ==
    IF NumColumns(row) < 4 THEN "IndexError"
    ELSE column_to_json_raises(Column(row, t))

\* One iteration of "for row in csv_reader" over a file of at most max rows
\* of the kinds given; the id and timestamp columns of a row are its row
\* number.
ReadRowFrom(kinds, max) ==
    /\ pc = "read"
    /\ n < max
    /\ \E row \in kinds :
          LET t == n + 1
              unique_id == Val("row_id", t)
              timestamp == Val("timestamp", t)
              step == column_to_json(Column(row, t))
              seen == viewer_step_after(viewer_step, step)
          IN  /\ n' = t
              /\ last_row' = row
              /\ IF row_raises(row, t) # "none"
                 THEN /\ pc' = "error"
                      /\ err' = row_raises(row, t)
                      /\ UNCHANGED <<viewer_step, episode, is_viewer_step_finished,
                                     instruction_list, finish_seen>>
                 ELSE /\ viewer_step' = seen
                      /\ IF seen
                         THEN IF handle_step_raises(step, episode) # "none"
                              THEN /\ pc' = "error"
                                   /\ err' = handle_step_raises(step, episode)
                                   /\ UNCHANGED <<episode, is_viewer_step_finished,
                                                  instruction_list, finish_seen>>
                              ELSE /\ episode' = handle_step(step, episode, unique_id, timestamp)
                                   /\ is_viewer_step_finished' = handle_step_returns(step)
                                   /\ finish_seen' = (finish_seen \/ handle_step_returns(step))
                                   /\ instruction_list' =
                                         IF StepEvent(step) = "setEpisode"
                                         THEN Append(instruction_list,
                                                     step.data.episode.task.instruction)
                                         ELSE instruction_list
                                   /\ UNCHANGED <<pc, err>>
                         ELSE UNCHANGED <<episode, is_viewer_step_finished,
                                          instruction_list, finish_seen, pc, err>>
    /\ UNCHANGED post_vars
    /\ UNCHANGED batch_vars
    /\ UNCHANGED sim_vars

ReadRow == ReadRowFrom(RowKinds, MaxRows)

\* Line 192 reading the list with a default: an episode without
\* reference_replay is post-processed as an empty one.
EndOfRows_defaults_to_empty ==
    /\ pc = "read"
    /\ reference_replay' = IF Has(episode, "reference_replay")
                           THEN episode.reference_replay ELSE << >>
    /\ i' = 0
    /\ post_processed_ref_replay' = << >>
    /\ visited' = << >>
    /\ combo_map' = EmptyDict
    /\ pc' = "while"
    /\ UNCHANGED err
    /\ UNCHANGED <<episode, data, action_data_list>>
    /\ UNCHANGED read_vars
    /\ UNCHANGED batch_vars
    /\ UNCHANGED sim_vars

\* The reader is exhausted: line 192 reads episode["reference_replay"] and
\* calls post_process_episode on a deep copy of it.
EndOfRows ==
    /\ pc = "read"
    /\ IF Has(episode, "reference_replay")
       THEN /\ reference_replay' = episode.reference_replay
            /\ i' = 0
            /\ post_processed_ref_replay' = << >>
            /\ visited' = << >>
            /\ combo_map' = EmptyDict
            /\ pc' = "while"
            /\ UNCHANGED err
       ELSE /\ pc' = "error"
            /\ err' = "KeyError"
            /\ UNCHANGED <<reference_replay, i, post_processed_ref_replay, visited, combo_map>>
    /\ UNCHANGED <<episode, data, action_data_list>>
    /\ UNCHANGED read_vars
    /\ UNCHANGED batch_vars
    /\ UNCHANGED sim_vars

\* ------------------------------------------------------ post_process_episode
\* reference_replay[k] of the code (0-based) is reference_replay[k + 1] here.
At(k) == reference_replay[k + 1]

\* Lines 242-248: the outer loop is entered and the record at the cursor read.
OuterLoop ==
    /\ pc = "while"
    /\ i < Len(reference_replay)
    /\ data' = At(i)
    /\ IF ~is_physics_step(get_action(At(i)))
       THEN /\ action_data_list' = << At(i) >>
            /\ pc' = "inner"
       ELSE /\ pc' = "append"
            /\ UNCHANGED action_data_list
    /\ visited' = Append(visited, i)
    /\ UNCHANGED <<reference_replay, i, post_processed_ref_replay, combo_map, err, episode>>
    /\ UNCHANGED read_vars
    /\ UNCHANGED batch_vars
    /\ UNCHANGED sim_vars

\* Line 249 looking at the record after the cursor.
InnerCond_lookahead ==
    /\ i + 1 < Len(reference_replay)
    /\ ~is_physics_step(get_action(At(i + 1)))

\* The condition of the inner loop, line 249.
InnerCond == i < Len(reference_replay) /\ ~is_physics_step(get_action(data))

\* Lines 250-252 without the increment of line 252.
InnerLoop_keeps_cursor ==
    /\ pc = "inner"
    /\ InnerCond
    /\ IF i + 1 < Len(reference_replay)
       THEN /\ data' = At(i + 1)
            /\ action_data_list' = Append(action_data_list, At(i + 1))
            /\ visited' = Append(visited, i + 1)
            /\ UNCHANGED <<pc, err, i>>
       ELSE /\ pc' = "error"
            /\ err' = "IndexError"
            /\ UNCHANGED <<data, action_data_list, i, visited>>
    /\ UNCHANGED <<reference_replay, post_processed_ref_replay, combo_map, episode>>
    /\ UNCHANGED read_vars
    /\ UNCHANGED batch_vars
    /\ UNCHANGED sim_vars

\* Lines 250-252: the body of the inner loop; reference_replay[i + 1] raises
\* IndexError when i + 1 is not an index.
InnerLoop ==
    /\ pc = "inner"
    /\ InnerCond
    /\ IF i + 1 < Len(reference_replay)
       THEN /\ data' = At(i + 1)
            /\ action_data_list' = Append(action_data_list, At(i + 1))
            /\ i' = i + 1
            /\ visited' = Append(visited, i + 1)
            /\ UNCHANGED <<pc, err>>
       ELSE /\ pc' = "error"
            /\ err' = "IndexError"
            /\ UNCHANGED <<data, action_data_list, i, visited>>
    /\ UNCHANGED <<reference_replay, post_processed_ref_replay, combo_map, episode>>
    /\ UNCHANGED read_vars
    /\ UNCHANGED batch_vars
    /\ UNCHANGED sim_vars

\* The tally of lines 254-258.
Tally(map, l, merged) ==
    IF Len(l) = 3
    THEN SetField(map, merged.action,
                  IF Has(map, merged.action) THEN map[merged.action] + 1 ELSE 1)
    ELSE map

\* Line 253 handing the merge the list itself: the writes of lines 205-216
\* and 227-229 land on the last record of the run, the input's record at the
\* cursor k.
replay_after_merge_in_place(rr, k, l) ==
    IF Len(l) \in {2, 3} /\ merge_raises(l) = "none"
    THEN [rr EXCEPT ![k + 1] = merge_replay_data_for_action(l)]
    ELSE rr

\* Line 253: the merge is handed copy.deepcopy(action_data_list), so what
\* it writes to the records of its list does not reach the records of the
\* input rr.
replay_after_merge(rr, k, l) == rr

\* Lines 253-258: the inner loop is left, the list merged and tallied.
Merge ==
    /\ pc = "inner"
    /\ ~InnerCond
    /\ IF merge_raises(action_data_list) # "none"
       THEN /\ pc' = "error"
            /\ err' = merge_raises(action_data_list)
            /\ UNCHANGED <<data, combo_map>>
       ELSE /\ data' = merge_replay_data_for_action(action_data_list)
            /\ combo_map' = Tally(combo_map, action_data_list,
                                  merge_replay_data_for_action(action_data_list))
            /\ pc' = "append"
            /\ UNCHANGED err
    /\ reference_replay' = replay_after_merge(reference_replay, i, action_data_list)
    /\ UNCHANGED <<i, action_data_list, post_processed_ref_replay, visited, episode>>
    /\ UNCHANGED read_vars
    /\ UNCHANGED batch_vars
    /\ UNCHANGED sim_vars

\* Lines 261-262 with the append indented into the branch of line 246.
AppendData_indented ==
    /\ pc = "append"
    /\ post_processed_ref_replay' =
          IF is_physics_step(get_action(data))
          THEN post_processed_ref_replay
          ELSE Append(post_processed_ref_replay, data)
    /\ i' = i + 1
    /\ pc' = "while"
    /\ UNCHANGED <<reference_replay, data, action_data_list, visited, combo_map, err, episode>>
    /\ UNCHANGED read_vars
    /\ UNCHANGED batch_vars
    /\ UNCHANGED sim_vars

\* Lines 261-262.
AppendData ==
    /\ pc = "append"
    /\ post_processed_ref_replay' = Append(post_processed_ref_replay, data)
    /\ i' = i + 1
    /\ pc' = "while"
    /\ UNCHANGED <<reference_replay, data, action_data_list, visited, combo_map, err, episode>>
    /\ UNCHANGED read_vars
    /\ UNCHANGED batch_vars
    /\ UNCHANGED sim_vars

\* Lines 263-264 and 192-193: the outer loop is left, the output returned and
\* stored in the episode.
Return ==
    /\ pc = "while"
    /\ ~(i < Len(reference_replay))
    /\ episode' = SetField(episode, "reference_replay", post_processed_ref_replay)
    /\ pc' = "done"
    /\ UNCHANGED <<err>>
    /\ UNCHANGED post_vars
    /\ UNCHANGED read_vars
    /\ UNCHANGED batch_vars
    /\ UNCHANGED sim_vars

Init ==
    /\ n = 0
    /\ viewer_step = FALSE
    /\ is_viewer_step_finished = FALSE
    /\ episode = EmptyDict
    /\ reference_replay = << >>
    /\ i = 0
    /\ data = None
    /\ action_data_list = << >>
    /\ post_processed_ref_replay = << >>
    /\ visited = << >>
    /\ combo_map = EmptyDict
    /\ instruction_list = << >>
    /\ unique_action_combo_map = EmptyDict
    /\ all_episodes = << >>
    /\ file_paths = << >>
    /\ files = 0
    /\ output = None
    /\ last_row = [kind |-> "none"]
    /\ finish_seen = FALSE
    /\ SimIdle
    /\ pc = "read"
    /\ err = "none"

Next ==
    \/ ReadRow
    \/ EndOfRows
    \/ OuterLoop
    \/ InnerLoop
    \/ Merge
    \/ AppendData
    \/ Return

Spec == Init /\ [][Next]_vars

\* ------------------------------------------------------ replay_to_episode
\* The most files a batch holds.
MaxFiles == 3

ViewerRow == [kind |-> "runStepViewer"]

FirstInstruction == "Place the object on the receptacle"

OtherInstruction == "Put the ball in the basket"

\* The log files a batch is made of: four that convert (one action and its
\* stepPhysics; a single stepPhysics under another instruction; two
\* setEpisode rows; two actions and their stepPhysics), one with no
\* setEpisode row, one whose last row has a payload that is not JSON and
\* one whose row has three columns.
BatchFiles ==
    { << ViewerRow,
         [kind |-> "setEpisode", instruction |-> FirstInstruction],
         [kind |-> "handleAction", action |-> "turnLeft", agent |-> TRUE],
         [kind |-> "stepPhysics", agent |-> TRUE] >>,
      << ViewerRow,
         [kind |-> "setEpisode", instruction |-> OtherInstruction],
         [kind |-> "stepPhysics", agent |-> FALSE] >>,
      << ViewerRow,
         [kind |-> "setEpisode", instruction |-> FirstInstruction],
         [kind |-> "setEpisode", instruction |-> OtherInstruction] >>,
      << ViewerRow,
         [kind |-> "setEpisode", instruction |-> FirstInstruction],
         [kind |-> "handleAction", action |-> "turnLeft", agent |-> TRUE],
         [kind |-> "handleAction", action |-> "turnRight", agent |-> FALSE],
         [kind |-> "stepPhysics", agent |-> TRUE] >>,
      << ViewerRow,
         [kind |-> "stepPhysics", agent |-> TRUE] >>,
      << ViewerRow,
         [kind |-> "setEpisode", instruction |-> FirstInstruction],
         [kind |-> "badJson"] >>,
      << [kind |-> "shortRow"] >> }

\* Line 270: the glob gives the files of the directory.
InitBatch ==
    /\ n = 0
    /\ viewer_step = FALSE
    /\ is_viewer_step_finished = FALSE
    /\ episode = EmptyDict
    /\ reference_replay = << >>
    /\ i = 0
    /\ data = None
    /\ action_data_list = << >>
    /\ post_processed_ref_replay = << >>
    /\ visited = << >>
    /\ combo_map = EmptyDict
    /\ instruction_list = << >>
    /\ unique_action_combo_map = EmptyDict
    /\ all_episodes = << >>
    /\ \E k \in 0..MaxFiles : file_paths \in [1..k -> BatchFiles]
    /\ files = 0
    /\ output = None
    /\ last_row = [kind |-> "none"]
    /\ finish_seen = FALSE
    /\ SimIdle
    /\ pc = "glob"
    /\ err = "none"

\* Lines 270-273 with the episode dict of the file before carried over.
NextFile_keeps_episode ==
    /\ pc = "glob"
    /\ files < Len(file_paths)
    /\ files' = files + 1
    /\ n' = 0
    /\ viewer_step' = FALSE
    /\ is_viewer_step_finished' = FALSE
    /\ reference_replay' = << >>
    /\ i' = 0
    /\ data' = None
    /\ action_data_list' = << >>
    /\ post_processed_ref_replay' = << >>
    /\ visited' = << >>
    /\ combo_map' = EmptyDict
    /\ last_row' = [kind |-> "none"]
    /\ finish_seen' = FALSE
    /\ pc' = "read"
    /\ UNCHANGED <<episode, instruction_list, unique_action_combo_map, all_episodes,
                   file_paths, output, err>>
    /\ UNCHANGED sim_vars

\* Lines 270-273: the next file is opened and convert_to_episode starts on
\* it with an empty episode.
NextFile ==
    /\ pc = "glob"
    /\ files < Len(file_paths)
    /\ files' = files + 1
    /\ n' = 0
    /\ viewer_step' = FALSE
    /\ is_viewer_step_finished' = FALSE
    /\ episode' = EmptyDict
    /\ reference_replay' = << >>
    /\ i' = 0
    /\ data' = None
    /\ action_data_list' = << >>
    /\ post_processed_ref_replay' = << >>
    /\ visited' = << >>
    /\ combo_map' = EmptyDict
    /\ last_row' = [kind |-> "none"]
    /\ finish_seen' = FALSE
    /\ pc' = "read"
    /\ UNCHANGED <<instruction_list, unique_action_combo_map, all_episodes,
                   file_paths, output, err>>
    /\ UNCHANGED sim_vars

\* One iteration of the loop of convert_to_episode on the file opened.
ReadRowBatch ==
    /\ files \in 1..Len(file_paths)
    /\ n < Len(file_paths[files])
    /\ ReadRowFrom({file_paths[files][n + 1]}, Len(file_paths[files]))

\* The reader of the file opened is exhausted.
EndOfRowsBatch ==
    /\ files \in 1..Len(file_paths)
    /\ n = Len(file_paths[files])
    /\ EndOfRows

\* Line 274: convert_to_episode has returned and its episode is appended.
AppendEpisode ==
    /\ pc = "done"
    /\ all_episodes' = Append(all_episodes, episode)
    /\ pc' = "glob"
    /\ UNCHANGED <<episode, unique_action_combo_map, file_paths, files, output, err>>
    /\ UNCHANGED sim_vars
    /\ UNCHANGED post_vars
    /\ UNCHANGED read_vars

\* The elements of a sequence.
Range(s) == {s[j] : j \in 1..Len(s)}

\* The lists list(set(l)) can be: the distinct elements of l in any order.
ListOfSet(l) ==
    {q \in [1..Cardinality(Range(l)) -> Range(l)] : Range(q) = Range(l)}

\* Lines 275-284: the loop over the files is over, the vocabulary is made
\* and the dataset written.
WriteOutput ==
    /\ pc = "glob"
    /\ files = Len(file_paths)
    /\ \E sentences \in ListOfSet(instruction_list) :
          output' = [episodes |-> all_episodes,
                     instruction_vocab |-> [sentences |-> sentences]]
    /\ pc' = "written"
    /\ UNCHANGED <<episode, unique_action_combo_map, all_episodes, file_paths,
                   files, err>>
    /\ UNCHANGED sim_vars
    /\ UNCHANGED post_vars
    /\ UNCHANGED read_vars

NextBatch ==
    \/ NextFile
    \/ ReadRowBatch
    \/ EndOfRowsBatch
    \/ OuterLoop
    \/ InnerLoop
    \/ Merge
    \/ AppendData
    \/ Return
    \/ AppendEpisode
    \/ WriteOutput

SpecBatch == InitBatch /\ [][NextBatch]_vars

\* ------------------------------------------- the conversion as a function
\* Lines 180-190 on the rows k .. Len(file) of a file: the episode dict
\* after them, from the flag and the dict before them, None when a row
\* raises.
RECURSIVE rows_applied(_, _, _, _)
rows_applied(file, k, flag, ep) ==
    IF k > Len(file) THEN ep
    ELSE IF row_raises(file[k], k) # "none" THEN None
    ELSE LET step == column_to_json(Column(file[k], k))
             seen == viewer_step_after(flag, step)
         IN  IF ~seen THEN rows_applied(file, k + 1, seen, ep)
             ELSE IF handle_step_raises(step, ep) # "none" THEN None
             ELSE rows_applied(file, k + 1, seen,
                      handle_step(step, ep, Val("row_id", k), Val("timestamp", k)))

\* Lines 249-252: the index of the record that ends the run starting at
\* index k, the first stepPhysics record after k.
RECURSIVE run_end(_, _)
run_end(rr, k) ==
    IF is_physics_step(get_action(rr[k + 1])) THEN k + 1 ELSE run_end(rr, k + 1)

\* Lines 242-264 from index k of a replay on which the call returns: the
\* elements appended.
RECURSIVE post_process_from(_, _)
post_process_from(rr, k) ==
    IF k > Len(rr) THEN << >>
    ELSE IF is_physics_step(get_action(rr[k]))
         THEN << rr[k] >> \o post_process_from(rr, k + 1)
         ELSE << merge_replay_data_for_action(SubSeq(rr, k, run_end(rr, k))) >>
                 \o post_process_from(rr, run_end(rr, k) + 1)

\* Lines 178-193 on a file alone: the episode returned, None when the
\* rows raise or leave no reference_replay.
convert_to_episode(file) ==
    LET ep == rows_applied(file, 1, FALSE, EmptyDict)
    IN  IF ep = None \/ ~Has(ep, "reference_replay") THEN None
        ELSE SetField(ep, "reference_replay", post_process_from(ep.reference_replay, 1))

\* ------------------------------------------------------ HabitatSimActions
\* The parser at rest: no file is being converted.
ParserIdle ==
    /\ n = 0
    /\ viewer_step = FALSE
    /\ is_viewer_step_finished = FALSE
    /\ episode = EmptyDict
    /\ reference_replay = << >>
    /\ i = 0
    /\ data = None
    /\ action_data_list = << >>
    /\ post_processed_ref_replay = << >>
    /\ visited = << >>
    /\ combo_map = EmptyDict
    /\ instruction_list = << >>
    /\ unique_action_combo_map = EmptyDict
    /\ all_episodes = << >>
    /\ file_paths = << >>
    /\ files = 0
    /\ output = None
    /\ last_row = [kind |-> "none"]
    /\ finish_seen = FALSE
    /\ pc = "idle"
    /\ err = "none"

parser_vars == <<n, viewer_step, is_viewer_step_finished, episode, reference_replay,
                 i, data, action_data_list, post_processed_ref_replay, visited, combo_map,
                 instruction_list, unique_action_combo_map, all_episodes,
                 file_paths, files, output, last_row, finish_seen, pc, err>>

\* The names callers ask for: the default ones and four more.
ActionSpaceNames ==
    (DOMAIN DefaultHabitatSimActions)
        \cup {"GRAB_RELEASE", "MOVE_BACKWARD", "NO_OP", "MY_ACTION"}

\* Line 66: the mapping with name registered on the next number.
registered(known, name) == SetField(known, name, Cardinality(DOMAIN known))

InitActions == ParserIdle /\ SimIdle

\* Lines 63-68 without the assertion.
extend_action_space_unchecked ==
    /\ \E name \in ActionSpaceNames :
          /\ known_actions' = registered(known_actions, name)
          /\ call' = [op |-> "extend_action_space", name |-> name,
                      raised |-> "none",
                      result |-> registered(known_actions, name)[name]]
    /\ UNCHANGED parser_vars
    /\ UNCHANGED <<measure_vars, sensor_vars, trainer_vars>>

\* Lines 48-68: extend_action_space(name).
extend_action_space ==
    /\ \E name \in ActionSpaceNames :
          IF name \in DOMAIN known_actions
          THEN /\ call' = [op |-> "extend_action_space", name |-> name,
                           raised |-> "AssertionError"]
               /\ UNCHANGED known_actions
          ELSE /\ known_actions' = registered(known_actions, name)
               /\ call' = [op |-> "extend_action_space", name |-> name,
                           raised |-> "none",
                           result |-> registered(known_actions, name)[name]]
    /\ UNCHANGED parser_vars
    /\ UNCHANGED <<measure_vars, sensor_vars, trainer_vars>>

\* Lines 70-77: has_action(name).
has_action ==
    /\ \E name \in ActionSpaceNames :
          call' = [op |-> "has_action", name |-> name, raised |-> "none",
                   result |-> (name \in DOMAIN known_actions)]
    /\ UNCHANGED known_actions
    /\ UNCHANGED parser_vars
    /\ UNCHANGED <<measure_vars, sensor_vars, trainer_vars>>

\* Lines 149-154: RearrangementSimV0ActionSpaceConfiguration.__init__.
RearrangementSimV0ActionSpaceConfiguration_init ==
    /\ LET first == IF "GRAB_RELEASE" \notin DOMAIN known_actions
                    THEN registered(known_actions, "GRAB_RELEASE")
                    ELSE known_actions
           second == IF "MOVE_BACKWARD" \notin DOMAIN first
                     THEN registered(first, "MOVE_BACKWARD")
                     ELSE first
       IN  known_actions' = second
    /\ call' = [op |-> "__init__", raised |-> "none"]
    /\ UNCHANGED parser_vars
    /\ UNCHANGED <<measure_vars, sensor_vars, trainer_vars>>

NextActions ==
    \/ extend_action_space
    \/ has_action
    \/ RearrangementSimV0ActionSpaceConfiguration_init

SpecActions == InitActions /\ [][NextActions]_vars

\* ------------------------------------------------------------ GrabSuccess
\* The most update_metric calls after one reset_metric.
MaxUpdates == 4

\* The ids of the objects of the scene.
ObjectIds == {1, 2, 3}

InitMeasure == ParserIdle /\ SimIdle

\* The simulator grips an object or lets go of it.
SimGrip ==
    /\ \E id \in ObjectIds \cup {-1} :
          /\ id # gripped_object_id
          /\ gripped_object_id' = id
    /\ UNCHANGED <<metric, prev_gripped_object_id, gripped_since_reset, updates>>
    /\ UNCHANGED <<action_vars, sensor_vars, trainer_vars>>
    /\ UNCHANGED parser_vars

\* rearrangement.py lines 557-562: the value update_metric gives _metric.
grab_metric(gripped, prev) == IF gripped # -1 /\ gripped # prev THEN 1 ELSE 0

\* rearrangement.py lines 551-552: reset_metric, which calls update_metric.
reset_metric ==
    /\ metric' = grab_metric(gripped_object_id, prev_gripped_object_id)
    /\ prev_gripped_object_id' = gripped_object_id
    /\ gripped_since_reset' = FALSE
    /\ updates' = 0
    /\ UNCHANGED gripped_object_id
    /\ UNCHANGED <<action_vars, sensor_vars, trainer_vars>>
    /\ UNCHANGED parser_vars

\* rearrangement.py lines 554-563: update_metric.
update_metric ==
    /\ updates >= 0
    /\ updates < MaxUpdates
    /\ metric' = grab_metric(gripped_object_id, prev_gripped_object_id)
    /\ prev_gripped_object_id' = gripped_object_id
    /\ gripped_since_reset' = (gripped_since_reset \/ gripped_object_id # -1)
    /\ updates' = updates + 1
    /\ UNCHANGED gripped_object_id
    /\ UNCHANGED <<action_vars, sensor_vars, trainer_vars>>
    /\ UNCHANGED parser_vars

NextMeasure ==
    \/ SimGrip
    \/ reset_metric
    \/ update_metric

SpecMeasure == InitMeasure /\ [][NextMeasure]_vars

\* ---------------------------------------------------- DemonstrationSensor
\* The longest reference_replay of an episode.
MaxReplay == 2

\* The most observations the sensor gives before the task is reset.
MaxObservations == 4

\* The action names of the records of a reference_replay.
ReplayActions == {"turnLeft", "turnRight", "moveForward", "grabReleaseObject"}

\* The reference_replays of the episodes of the task.
DemoReplays ==
    UNION { [1..k -> [action : ReplayActions]] : k \in 0..MaxReplay }

\* habitat.tasks.utils.get_habitat_sim_action: the simulator action of an
\* action name.
get_habitat_sim_action(name) ==
    CASE name = "moveForward" -> DefaultHabitatSimActions["MOVE_FORWARD"]
      [] name = "turnLeft" -> DefaultHabitatSimActions["TURN_LEFT"]
      [] name = "turnRight" -> DefaultHabitatSimActions["TURN_RIGHT"]
      [] name = "grabReleaseObject" -> Cardinality(DOMAIN DefaultHabitatSimActions)

\* Lines 193-194 without the reset.
timestep_at_observation_no_reset(t, active) == t

\* Lines 193-194: the timestep the observation is made at.
timestep_at_observation(t, active) == IF ~active THEN 0 ELSE t

\* Lines 196-200: the action observed at timestep t.
demonstration(replay, t) ==
    IF t < Len(replay) THEN get_habitat_sim_action(replay[t + 1].action) ELSE -1

InitSensor == ParserIdle /\ SimIdle

\* Lines 592-596: RearrangementTask.reset on an episode; the reset of the
\* base class takes the observations of the sensors.
task_reset ==
    /\ \E replay \in DemoReplays :
          LET t == timestep_at_observation(timestep, FALSE) IN
          /\ demo_replay' = replay
          /\ demo_action' = demonstration(replay, t)
          /\ timestep' = t + 1
    /\ observations' = 1
    /\ is_stop_called' = FALSE
    /\ is_episode_active' = TRUE
    /\ UNCHANGED <<action_vars, measure_vars, trainer_vars>>
    /\ UNCHANGED parser_vars

\* The step of the base class on an active episode: the action is taken
\* (it may be STOP), the sensors are observed and the task asks
\* _check_episode_is_active (lines 598-599).
task_step ==
    /\ is_episode_active
    /\ timestep < MaxObservations
    /\ \E stop \in BOOLEAN :
          /\ is_stop_called' = stop
          /\ is_episode_active' = ~stop
    /\ LET t == timestep_at_observation(timestep, is_episode_active) IN
          /\ demo_action' = demonstration(demo_replay, t)
          /\ timestep' = t + 1
    /\ observations' = observations + 1
    /\ UNCHANGED demo_replay
    /\ UNCHANGED <<action_vars, measure_vars, trainer_vars>>
    /\ UNCHANGED parser_vars

\* Lines 186-204: get_observation called on the sensor as the task is.
get_observation ==
    /\ observations >= 1
    /\ timestep < MaxObservations
    /\ LET t == timestep_at_observation(timestep, is_episode_active) IN
          /\ demo_action' = demonstration(demo_replay, t)
          /\ timestep' = t + 1
    /\ observations' = IF is_episode_active THEN observations + 1 ELSE 1
    /\ UNCHANGED <<demo_replay, is_episode_active, is_stop_called>>
    /\ UNCHANGED <<action_vars, measure_vars, trainer_vars>>
    /\ UNCHANGED parser_vars

NextSensor ==
    \/ task_reset
    \/ task_step
    \/ get_observation

SpecSensor == InitSensor /\ [][NextSensor]_vars

\* ------------------------------------------ the DD-PPO trainer's rollout loop
\* ddppo_trainer.py, RearrangementDDPPOTrainer.train.  The workers are the
\* ranks 0..world_size-1 (line 165-166); num_done is the key of the shared
\* store (lines 160-163), read and added to atomically.
WorldSize == 2
NumSteps == 5
NumUpdates == 2

\* Line 58: SHORT_ROLLOUT_THRESHOLD is 0.25, kept here in hundredths.
SHORT_ROLLOUT_THRESHOLD == 25

\* The values of RL.DDPPO.sync_frac the trainer is run with, in tenths.
SyncFracs == {0, 6}

Workers == 0..(WorldSize - 1)

\* Line 163 and the state of a worker when it enters the loop of line 301.
InitTrainer ==
    /\ ParserIdle
    /\ ActionsIdle /\ MeasureIdle /\ SensorIdle
    /\ num_done = 0
    /\ sync_frac \in SyncFracs
    /\ wpc = [w \in Workers |-> "update"]
    /\ update_no = [w \in Workers |-> 0]
    /\ rollout_step = [w \in Workers |-> 0]
    /\ rollout_steps = [w \in Workers |-> 0]
    /\ num_done_read = [w \in Workers |-> -1]
    /\ adds = [w \in Workers |-> 0]

trainer_frame ==
    /\ UNCHANGED <<action_vars, measure_vars, sensor_vars>>
    /\ UNCHANGED parser_vars

\* Lines 358-360: the first operand of the test after the step of index s.
past_threshold_always(s) == TRUE

past_threshold(s) == s * 100 >= NumSteps * SHORT_ROLLOUT_THRESHOLD

\* Lines 361-363: the second operand, on the value read from the store.
enough_done(read) == read * 10 > sync_frac * WorldSize

\* Lines 301-340: a worker starts an update: the loop of line 301 ends
\* after NUM_UPDATES updates, a worker that was told to exit returns
\* (lines 312-338), and otherwise the rollout loop begins (lines 340-343).
start_update(w) ==
    /\ wpc[w] = "update"
    /\ \/ /\ update_no[w] >= NumUpdates
          /\ wpc' = [wpc EXCEPT ![w] = "done"]
          /\ UNCHANGED <<rollout_step, rollout_steps, num_done_read, adds>>
       \/ /\ update_no[w] < NumUpdates
          /\ wpc' = [wpc EXCEPT ![w] = "returned"]
          /\ UNCHANGED <<rollout_step, rollout_steps, num_done_read, adds>>
       \/ /\ update_no[w] < NumUpdates
          /\ wpc' = [wpc EXCEPT ![w] = "rollout"]
          /\ rollout_step' = [rollout_step EXCEPT ![w] = 0]
          /\ rollout_steps' = [rollout_steps EXCEPT ![w] = 0]
          /\ num_done_read' = [num_done_read EXCEPT ![w] = -1]
          /\ adds' = [adds EXCEPT ![w] = 0]
    /\ UNCHANGED <<num_done, update_no, sync_frac>>
    /\ trainer_frame

\* Lines 343-365: one iteration of the rollout loop: the step is collected,
\* and the test of lines 358-363 reads num_done only when its first operand
\* holds; the loop is left by the break or when range(num_steps) is used up.
collect_rollout_step(w) ==
    /\ wpc[w] = "rollout"
    /\ LET s == rollout_step[w]
           read == IF past_threshold(s) THEN num_done ELSE -1
           leave == past_threshold(s) /\ enough_done(read) IN
          /\ rollout_steps' = [rollout_steps EXCEPT ![w] = @ + 1]
          /\ num_done_read' = [num_done_read EXCEPT ![w] = read]
          /\ IF leave \/ s + 1 >= NumSteps
                THEN /\ wpc' = [wpc EXCEPT ![w] = "add"]
                     /\ UNCHANGED rollout_step
                ELSE /\ rollout_step' = [rollout_step EXCEPT ![w] = s + 1]
                     /\ UNCHANGED wpc
    /\ UNCHANGED <<num_done, update_no, adds, sync_frac>>
    /\ trainer_frame

\* Line 367, and the update of the agent up to the all_reduce of line 384.
add_num_done(w) ==
    /\ wpc[w] = "add"
    /\ num_done' = num_done + 1
    /\ adds' = [adds EXCEPT ![w] = @ + 1]
    /\ wpc' = [wpc EXCEPT ![w] = "reduce"]
    /\ UNCHANGED <<rollout_step, rollout_steps, num_done_read, update_no, sync_frac>>
    /\ trainer_frame

\* Whether worker v has reached the all_reduce of the update worker w is in.
at_reduce(v, w) ==
    \/ update_no[v] > update_no[w]
    \/ /\ update_no[v] = update_no[w]
       /\ wpc[v] \in {"reduce", "reset"}

\* Lines 384-395: the all_reduce calls return once every worker has made
\* them; rank 0 goes on to line 397, the other ranks to their next update.
all_reduce(w) ==
    /\ wpc[w] = "reduce"
    /\ \A v \in Workers : at_reduce(v, w)
    /\ IF w = 0
          THEN /\ wpc' = [wpc EXCEPT ![w] = "reset"]
               /\ UNCHANGED update_no
          ELSE /\ wpc' = [wpc EXCEPT ![w] = "update"]
               /\ update_no' = [update_no EXCEPT ![w] = @ + 1]
    /\ UNCHANGED <<rollout_step, rollout_steps, num_done_read, adds, num_done, sync_frac>>
    /\ trainer_frame

\* Lines 397-398: rank 0 sets num_done back to "0".
reset_num_done(w) ==
    /\ wpc[w] = "reset"
    /\ num_done' = 0
    /\ wpc' = [wpc EXCEPT ![w] = "update"]
    /\ update_no' = [update_no EXCEPT ![w] = @ + 1]
    /\ UNCHANGED <<rollout_step, rollout_steps, num_done_read, adds, sync_frac>>
    /\ trainer_frame

NextTrainer ==
    \E w \in Workers :
        \/ start_update(w)
        \/ collect_rollout_step(w)
        \/ add_num_done(w)
        \/ all_reduce(w)
        \/ reset_num_done(w)

SpecTrainer == InitTrainer /\ [][NextTrainer]_vars

\* -------------------------------------- parse_replay_data_for_action, alone
\* The action names of handleAction payloads.
ActionNames == {"moveForward", "moveBackward", "turnLeft", "turnRight",
                "lookUp", "lookDown"}

\* The handleAction payloads the extractor is called on, as rows: every
\* combination of the two flags, with and without actionMeta and
\* agentState, and the other actions.
ExtractRows ==
    [kind : {"grabReleaseObject"}, grab : BOOLEAN, release : BOOLEAN,
     agent : BOOLEAN, meta : BOOLEAN, tag : 1..MaxTag]
    \cup [kind : {"handleAction"}, action : ActionNames, agent : BOOLEAN,
          tag : 1..MaxTag]

\* The data of a grabReleaseObject payload that has no actionMeta.
WithoutMeta(d) ==
    SetField(d, "actionData",
             [k \in (DOMAIN d.actionData) \ {"actionMeta"} |-> d.actionData[k]])

\* The data of the handleAction payload of such a row.
ExtractData(row) ==
    IF row.kind = "grabReleaseObject"
    THEN IF row.meta
         THEN GrabPayload(row.grab, row.release, row.agent, row.tag)
         ELSE WithoutMeta(GrabPayload(row.grab, row.release, row.agent, row.tag))
    ELSE ActionPayload(row.action, row.agent, row.tag)

InitExtract ==
    /\ n = 0
    /\ viewer_step = FALSE
    /\ is_viewer_step_finished = FALSE
    /\ episode = EmptyDict
    /\ reference_replay = << >>
    /\ i = 0
    /\ data = None
    /\ action_data_list = << >>
    /\ post_processed_ref_replay = << >>
    /\ visited = << >>
    /\ combo_map = EmptyDict
    /\ instruction_list = << >>
    /\ unique_action_combo_map = EmptyDict
    /\ all_episodes = << >>
    /\ file_paths = << >>
    /\ files = 0
    /\ output = None
    /\ last_row \in ExtractRows
    /\ finish_seen = FALSE
    /\ SimIdle
    /\ pc = "extract_call"
    /\ err = "none"

\* Line 163: parse_replay_data_for_action is called on the payload's data.
ExtractCall ==
    /\ pc = "extract_call"
    /\ LET d == ExtractData(last_row)
           action == d.action
       IN  IF parse_replay_data_for_action_raises(action, d) # "none"
           THEN /\ pc' = "error"
                /\ err' = parse_replay_data_for_action_raises(action, d)
                /\ UNCHANGED data
           ELSE /\ data' = parse_replay_data_for_action(action, d)
                /\ pc' = "extract_done"
                /\ UNCHANGED err
    /\ UNCHANGED <<reference_replay, i, action_data_list, post_processed_ref_replay, visited,
                   combo_map, episode>>
    /\ UNCHANGED read_vars
    /\ UNCHANGED batch_vars
    /\ UNCHANGED sim_vars

NextExtract == ExtractCall

SpecExtract == InitExtract /\ [][NextExtract]_vars

\* ------------------------------------- merge_replay_data_for_action, alone
\* The record the extractors make of a row of kind row and number t.
RecordOf(row, t) ==
    LET step == Payload(row, t) IN
    SetField(IF step.event = "handleAction"
             THEN parse_replay_data_for_action(step.data.action, step.data)
             ELSE parse_replay_data_for_step_physics(step.data),
             "timestamp", Val("timestamp", t))

RecordRows == {row \in RowKinds : row.kind \in {"handleAction", "grabReleaseObject", "stepPhysics"}}

\* An action record that carries three fields only.
MinimalGrab ==
    [action |-> "grabReleaseObject", is_grab_action |-> TRUE, gripped_object_id |-> 5]

\* The records a list handed to the merge is made of: every record the
\* extractors produce, and the three-field record.
DirectRecords ==
    {RecordOf(row, t) : row \in RecordRows, t \in 1..MaxTag} \cup {MinimalGrab}

\* The lists of k records, the first of them an action record.
MergeLists(k) ==
    {l \in [1..k -> DirectRecords] : ~is_physics_step(get_action(l[1]))}

InitMerge ==
    /\ n = 0
    /\ viewer_step = FALSE
    /\ is_viewer_step_finished = FALSE
    /\ episode = EmptyDict
    /\ reference_replay = << >>
    /\ i = 0
    /\ data = None
    /\ \E k \in 1..MaxList : action_data_list \in MergeLists(k)
    /\ post_processed_ref_replay = << >>
    /\ visited = << >>
    /\ combo_map = EmptyDict
    /\ instruction_list = << >>
    /\ unique_action_combo_map = EmptyDict
    /\ all_episodes = << >>
    /\ file_paths = << >>
    /\ files = 0
    /\ output = None
    /\ last_row = [kind |-> "none"]
    /\ finish_seen = FALSE
    /\ SimIdle
    /\ pc = "merge_call"
    /\ err = "none"

\* merge_replay_data_for_action(action_data_list) is called and returns or raises.
MergeCall ==
    /\ pc = "merge_call"
    /\ IF merge_raises(action_data_list) # "none"
       THEN /\ pc' = "error"
            /\ err' = merge_raises(action_data_list)
            /\ UNCHANGED data
       ELSE /\ data' = merge_replay_data_for_action(action_data_list)
            /\ pc' = "merge_done"
            /\ UNCHANGED err
    /\ UNCHANGED <<episode, reference_replay, i, action_data_list,
                   post_processed_ref_replay, visited, combo_map>>
    /\ UNCHANGED read_vars
    /\ UNCHANGED batch_vars
    /\ UNCHANGED sim_vars

NextMerge == MergeCall

SpecMerge == InitMerge /\ [][NextMerge]_vars

\* ------------------------------------------------ post_process_episode, alone
\* The longest list post_process_episode is called on directly.
MaxReplayLen == 4

\* The rows whose records the lists are made of.
PostRows == {row \in RecordRows : row.agent}

\* The lists post_process_episode is called on: the records handle_step
\* appends for up to MaxReplayLen rows, stamped with their position.
PostInputs ==
    UNION { { [j \in 1..k |-> RecordOf(rows[j], j)] : rows \in [1..k -> PostRows] } :
            k \in 0..MaxReplayLen }

\* Line 192: the call of post_process_episode on a copy of the list.
InitPost ==
    /\ n = 0
    /\ viewer_step = FALSE
    /\ is_viewer_step_finished = FALSE
    /\ reference_replay \in PostInputs
    /\ episode = [reference_replay |-> reference_replay]
    /\ i = 0
    /\ data = None
    /\ action_data_list = << >>
    /\ post_processed_ref_replay = << >>
    /\ visited = << >>
    /\ combo_map = EmptyDict
    /\ instruction_list = << >>
    /\ unique_action_combo_map = EmptyDict
    /\ all_episodes = << >>
    /\ file_paths = << >>
    /\ files = 0
    /\ output = None
    /\ last_row = [kind |-> "none"]
    /\ finish_seen = FALSE
    /\ SimIdle
    /\ pc = "while"
    /\ err = "none"

NextPost ==
    \/ OuterLoop
    \/ InnerLoop
    \/ Merge
    \/ AppendData
    \/ Return

\* The interpreter goes on running the call until it returns or raises.
SpecPost == InitPost /\ [][NextPost]_vars /\ WF_vars(NextPost)

\* ================================================================ claims
\* A record of a replay that is a physics record.
IsPhysicsRecord(r) == Has(r, "action") /\ r.action = "stepPhysics"

\* The call of post_process_episode is under way or has ended.
InPostProcess ==
    \/ pc \in {"while", "inner", "append", "done"}
    \/ pc = "error" /\ err \in {"IndexError", "SystemExit"} /\ reference_replay # << >>

\* Index j of the input starts a maximal run of non-physics records.
StartsRun(rr, j) ==
    /\ ~IsPhysicsRecord(rr[j])
    /\ (j = 1 \/ IsPhysicsRecord(rr[j - 1]))

\* Index j of the input is a physics record that no run precedes.
FreePhysics(rr, j) ==
    /\ IsPhysicsRecord(rr[j])
    /\ (j = 1 \/ IsPhysicsRecord(rr[j - 1]))

\* Index j of the input is a physics record that ends a run.
EndsRun(rr, j) ==
    /\ IsPhysicsRecord(rr[j])
    /\ j > 1
    /\ ~IsPhysicsRecord(rr[j - 1])

NumPhysics(rr, k) == Cardinality({j \in 1..k : IsPhysicsRecord(rr[j])})

NumRuns(rr, k) == Cardinality({j \in 1..k : StartsRun(rr, j)})

\* The records rr[j], j <= k, with FreePhysics(rr, j), in order.
RECURSIVE FreePhysicsUpTo(_, _)
FreePhysicsUpTo(rr, k) ==
    IF k = 0 THEN << >>
    ELSE IF FreePhysics(rr, k)
         THEN Append(FreePhysicsUpTo(rr, k - 1), rr[k])
         ELSE FreePhysicsUpTo(rr, k - 1)

C3_File ==
    /\ n = 6
    /\ is_viewer_step_finished
    /\ Has(episode, "episode_id")
    /\ episode.episode_id = Val("row_id", 2)
    /\ Len(reference_replay) = 3
    /\ reference_replay[1].action = "turnLeft"
    /\ reference_replay[1].timestamp = Val("timestamp", 3)
    /\ reference_replay[2].action = "turnLeft"
    /\ reference_replay[2].timestamp = Val("timestamp", 4)
    /\ reference_replay[3].action = "stepPhysics"
    /\ reference_replay[3].timestamp = Val("timestamp", 5)

EndsWithRun(rr) == Len(rr) > 0 /\ ~IsPhysicsRecord(rr[Len(rr)])

\* The last maximal run of rr, when EndsWithRun(rr).
TrailingRun(rr) ==
    LET start == CHOOSE j \in 1..Len(rr) :
                    StartsRun(rr, j) /\ \A k \in j..Len(rr) : ~IsPhysicsRecord(rr[k])
    IN  SubSeq(rr, start, Len(rr))

\* C4 (as stated): when the input ends with a run of non-physics records,
\* post_process_episode reads no record beyond the end of the sequence,
\* completes normally, and the last output element is the merge of that
\* trailing run.
C4_AsStated ==
    InPostProcess /\ EndsWithRun(reference_replay) =>
        /\ err # "IndexError"
        /\ pc = "done" =>
              /\ Len(post_processed_ref_replay) > 0
              /\ post_processed_ref_replay[Len(post_processed_ref_replay)]
                    = merge_replay_data_for_action(TrailingRun(reference_replay))

\* d is p except for the keys of the set overwritten.
RestFrom(d, p, overwritten) ==
    /\ DOMAIN d = (DOMAIN p) \cup overwritten
    /\ \A k \in (DOMAIN p) \ overwritten : d[k] = p[k]

\* The element about to be appended is the merge of a run.
MergedAtAppend == pc = "append" /\ ~IsPhysicsRecord(data)

MergeEnded == pc \in {"merge_done", "error"}

\* C7: the merge of two records [a0, a1], a0.action not grabReleaseObject,
\* returns a record whose action, collision, object_under_cross_hair and
\* nearest_object_id are a0's and whose every other field is a1's (and
\* which has no other field).
C7_PairPrecedence ==
    MergeEnded /\ Len(action_data_list) = 2
               /\ action_data_list[1].action # "grabReleaseObject" =>
        LET a0 == action_data_list[1]
            a1 == action_data_list[2]
            keys == {"action", "collision", "object_under_cross_hair",
                     "nearest_object_id"}
        IN  /\ pc = "merge_done"
            /\ \A k \in keys : Has(data, k) /\ data[k] = a0[k]
            /\ RestFrom(data, a1, keys)

\* C7 witness: two action records with different actions and contents have
\* been merged.
C7_Witness ==
    /\ pc = "merge_done"
    /\ Len(action_data_list) = 2
    /\ action_data_list[1].action = "turnLeft"
    /\ action_data_list[2].action = "turnRight"
    /\ action_data_list[1].timestamp # action_data_list[2].timestamp

\* C8 (as stated): the merge of two records [a0, a1] with a0.action
\* grabReleaseObject returns a record with action grabReleaseObject that
\* carries a0's is_grab_action and gripped_object_id, and a0's
\* is_release_action, action_data and object_under_cross_hair where a0 has
\* them, whatever a1 is and also when a0 has no other field than action,
\* is_grab_action and gripped_object_id.
C8_AsStated ==
    MergeEnded /\ Len(action_data_list) = 2
               /\ action_data_list[1].action = "grabReleaseObject" =>
        LET a0 == action_data_list[1] IN
        /\ pc = "merge_done"
        /\ data.action = "grabReleaseObject"
        /\ data.is_grab_action = a0.is_grab_action
        /\ data.gripped_object_id = a0.gripped_object_id
        /\ \A k \in {"is_release_action", "action_data", "object_under_cross_hair"} :
              Has(a0, k) => Has(data, k) /\ data[k] = a0[k]

\* C9: the merge of three records [a0, a1, a2] with a0.action = a1.action
\* = X, X not grabReleaseObject, returns a record whose action is X
\* followed by "Twice", whatever a2 is; three turnLeft records give
\* "turnLeftTwice".
C9_TwiceName ==
    MergeEnded /\ Len(action_data_list) = 3
               /\ action_data_list[1].action = action_data_list[2].action
               /\ action_data_list[1].action # "grabReleaseObject" =>
        /\ pc = "merge_done"
        /\ data.action = action_data_list[1].action \o "Twice"
        /\ action_data_list[1].action = "turnLeft" => data.action = "turnLeftTwice"

\* C9 witness: three turnLeft records have been merged.
C9_Witness ==
    /\ pc = "merge_done"
    /\ Len(action_data_list) = 3
    /\ \A j \in 1..3 : action_data_list[j].action = "turnLeft"

\* The list merged has the actions turnLeft, turnRight, turnRight.
C10_List ==
    /\ Len(action_data_list) = 3
    /\ action_data_list[1].action = "turnLeft"
    /\ action_data_list[2].action = "turnRight"
    /\ action_data_list[3].action = "turnRight"

\* C10 (as stated): the merge of three records with actions turnLeft,
\* turnRight, turnRight has action "turnLeftTurnRight".
C10_AsStated ==
    MergeEnded /\ C10_List => pc = "merge_done" /\ data.action = "turnLeftTurnRight"

\* C10 (amended): the merge of three records with actions turnLeft,
\* turnRight, turnRight has action "turnLeftturnRight", the two names
\* joined as they are.
C10_ConcatName ==
    MergeEnded /\ C10_List => pc = "merge_done" /\ data.action = "turnLeftturnRight"

\* C10 witness: such a list has been merged.
C10_Witness == pc = "merge_done" /\ C10_List

\* A record made from a handleAction row.
IsActionRecord(r) == Has(r, "action") /\ r.action # "stepPhysics"

\* C11 (as stated): the merge of three action records [a0, a1, a2] with
\* a0.action not grabReleaseObject returns a2 with action overwritten by
\* the composite name and collision by a1.collision, every other field of
\* a2 unchanged and no other field added.
C11_AsStated ==
    MergeEnded /\ Len(action_data_list) = 3
               /\ (\A j \in 1..3 : IsActionRecord(action_data_list[j]))
               /\ action_data_list[1].action # "grabReleaseObject" =>
        LET a0 == action_data_list[1]
            a1 == action_data_list[2]
            a2 == action_data_list[3]
        IN  /\ pc = "merge_done"
            /\ data.action = (IF a0.action = a1.action
                              THEN a0.action \o "Twice"
                              ELSE a0.action \o a1.action)
            /\ Has(a1, "collision")
            /\ data.collision = a1.collision
            /\ RestFrom(data, a2, {"action", "collision"})

\* Index j of the input starts a run whose list of three has a
\* grabReleaseObject record first: rr[j], rr[j + 1] and the stepPhysics
\* record rr[j + 2] that ends the run.
GrabFirstOfThree(rr, j) ==
    /\ j + 2 <= Len(rr)
    /\ StartsRun(rr, j)
    /\ rr[j].action = "grabReleaseObject"
    /\ ~IsPhysicsRecord(rr[j + 1])
    /\ IsPhysicsRecord(rr[j + 2])

C13_AsStated ==
    ~(MergedAtAppend /\ Len(action_data_list) > 4)

\* C14 (as stated): once a viewer-stream row of type finishStep has been
\* read, reading a later row of the file leaves the episode, its
\* reference_replay included, as it is.
C14_AsStated ==
    [][finish_seen /\ n' # n => episode' = episode]_vars

\* C15 (as stated): once a setEpisode event has been applied, reading a
\* row keeps episode_id, scene_id, start pose, objects, instruction and
\* goals of the episode, and reference_replay only grows by appends.
C15_AsStated ==
    [][Has(episode, "episode_id") /\ n' # n =>
          /\ \A k \in {"episode_id", "scene_id", "start_position", "start_rotation",
                        "objects", "instruction", "goals"} :
                Has(episode, k) => Has(episode', k) /\ episode'[k] = episode[k]
          /\ Len(episode'.reference_replay) >= Len(episode.reference_replay)
          /\ SubSeq(episode'.reference_replay, 1, Len(episode.reference_replay))
                = episode.reference_replay]_vars

\* C16: while no runStep/viewer row has been read nothing is applied (the
\* episode is the empty dict, no instruction is recorded, no finishStep is
\* noticed); once set the viewer flag stays set while the file is read; and
\* with the flag set every row read is classified, whatever its type: a
\* setEpisode row sets episode_id to its id, a handleAction or stepPhysics
\* row appends one record, a finishStep row is reported as such.
C16_ViewerFlag ==
    /\ [](~viewer_step =>
            episode = EmptyDict /\ instruction_list = << >> /\ ~finish_seen)
    /\ [][viewer_step => viewer_step']_vars
    /\ [][viewer_step /\ n' # n /\ pc' # "error" =>
             /\ last_row'.kind = "setEpisode" =>
                   /\ Has(episode', "episode_id")
                   /\ episode'.episode_id = Val("row_id", n')
             /\ last_row'.kind \in {"handleAction", "grabReleaseObject", "stepPhysics"} =>
                   Len(episode'.reference_replay) = Len(episode.reference_replay) + 1
             /\ last_row'.kind = "finishStep" => is_viewer_step_finished']_vars

\* C16 witness: with the flag set and an episode under way, a row whose
\* type is finishStep, not runStep, has been classified.
C16_Witness ==
    /\ viewer_step
    /\ Has(episode, "episode_id")
    /\ last_row.kind = "finishStep"
    /\ is_viewer_step_finished

\* The uncompacted reference_replay of an episode, empty before setEpisode.
ReplayOf(ep) == IF Has(ep, "reference_replay") THEN ep.reference_replay ELSE << >>

\* The records of rr are in row order, each stamped with a row after row t.
InRowOrderAfter(rr, t) ==
    /\ \A j \in 1..Len(rr) :
          /\ Has(rr[j], "timestamp")
          /\ rr[j].timestamp[1] = "timestamp"
          /\ rr[j].timestamp[2] > t
          /\ rr[j].timestamp[2] <= n
    /\ \A j, k \in 1..Len(rr) : j < k => rr[j].timestamp[2] < rr[k].timestamp[2]

\* C17: while the file is read, every handleAction row and every
\* stepPhysics row that is applied appends exactly one record, at the end
\* of reference_replay, of the row's action and with the row's timestamp;
\* a setEpisode row starts the replay anew and every other row, and every
\* row that is not applied, leaves the episode as it is.  So
\* reference_replay holds one record for each such row applied since
\* setEpisode, in row order.
C17_OneRecordPerRow ==
    /\ [](pc = "read" /\ Has(episode, "reference_replay") =>
            InRowOrderAfter(episode.reference_replay, episode.episode_id[2]))
    /\ [][n' # n =>
             IF pc' = "error" \/ ~viewer_step'
             THEN episode' = episode
             ELSE LET kind == last_row'.kind
                      rr == ReplayOf(episode')
                  IN  /\ kind \in {"handleAction", "grabReleaseObject", "stepPhysics"} =>
                            /\ Len(rr) = Len(episode.reference_replay) + 1
                            /\ SubSeq(rr, 1, Len(rr) - 1) = episode.reference_replay
                            /\ rr[Len(rr)].timestamp = Val("timestamp", n')
                            /\ rr[Len(rr)].action =
                                  (CASE kind = "handleAction" -> last_row'.action
                                     [] kind = "grabReleaseObject" -> "grabReleaseObject"
                                     [] kind = "stepPhysics" -> "stepPhysics")
                      /\ kind = "setEpisode" => rr = << >>
                      /\ kind \notin {"handleAction", "grabReleaseObject", "stepPhysics",
                                      "setEpisode"} => episode' = episode]_vars

\* C17 witness: after setEpisode at row 2, rows 3 and 5 have each given
\* one record and row 4, which carries no such event, has given none.
C17_Witness ==
    /\ pc = "read"
    /\ Has(episode, "reference_replay")
    /\ episode.episode_id = Val("row_id", 2)
    /\ Len(episode.reference_replay) = 2
    /\ IsActionRecord(episode.reference_replay[1])
    /\ episode.reference_replay[1].timestamp = Val("timestamp", 3)
    /\ IsPhysicsRecord(episode.reference_replay[2])
    /\ episode.reference_replay[2].timestamp = Val("timestamp", 5)

\* C19 (as stated): a row whose payload column is empty does not make the
\* conversion of its file fail.
C19_AsStated ==
    last_row.kind = "emptyPayload" => pc # "error"

\* A file with a row of fewer than four columns or with a payload that is
\* not empty and not JSON.
Malformed(file) == \E j \in 1..Len(file) : file[j].kind \in {"shortRow", "badJson"}

\* A file with a setEpisode row.
HasSetEpisode(file) == \E j \in 1..Len(file) : file[j].kind = "setEpisode"

\* replay_to_episode has ended, by returning or by an exception.
BatchEnded == pc \in {"written", "error"}

\* C18 (as stated): a batch of n files of which m are malformed, the others
\* having a setEpisode row, is not aborted and writes a dataset of n - m
\* episodes.
C18_AsStated ==
    BatchEnded /\ (\A j \in 1..Len(file_paths) :
                     Malformed(file_paths[j]) \/ HasSetEpisode(file_paths[j])) =>
        /\ pc = "written"
        /\ Len(output.episodes) =
              Cardinality({j \in 1..Len(file_paths) : ~Malformed(file_paths[j])})

\* C20 (as stated): the sentences of the vocabulary written are the
\* instruction texts of the episodes written, each once, and nothing else.
C20_AsStated ==
    pc = "written" =>
        LET sentences == output.instruction_vocab.sentences IN
        /\ Range(sentences) =
              {output.episodes[j].instruction.instruction_text :
                  j \in 1..Len(output.episodes)}
        /\ \A j, k \in 1..Len(sentences) : j # k => sentences[j] # sentences[k]

\* s is an initial part of t.
IsPrefix(s, t) == Len(s) <= Len(t) /\ SubSeq(t, 1, Len(s)) = s

\* C21: in a batch, the episode of each file is the episode its
\* conversion alone gives, whatever files came before it; from one step to
\* the next instruction_list and the episode list only grow at their end
\* and the global tally is not written.
C21_FileAlone ==
    /\ [](/\ pc = "done" => episode = convert_to_episode(file_paths[files])
          /\ \A j \in 1..Len(all_episodes) :
                all_episodes[j] = convert_to_episode(file_paths[j]))
    /\ [][/\ IsPrefix(instruction_list, instruction_list')
          /\ IsPrefix(all_episodes, all_episodes')
          /\ unique_action_combo_map' = unique_action_combo_map]_vars

\* C21 witness: the episode of a file with a run has been appended after
\* the episodes of two other files, one of them with two setEpisode rows.
C21_Witness ==
    /\ Len(all_episodes) = 3
    /\ Len(file_paths[1]) = 3
    /\ file_paths[1][3].kind = "setEpisode"
    /\ file_paths[2] # file_paths[3]
    /\ Len(all_episodes[3].reference_replay) = 1
    /\ all_episodes[3].reference_replay[1].action = "turnLeft"

\* C22: the record extracted from a grabReleaseObject payload carries the
\* two flags of the payload, and its action_data has the four fields
\* new_object_translation, new_object_id, object_handle and
\* gripped_object_id, read from actionMeta, exactly when is_release_action
\* is true (also when is_grab_action is true as well), only
\* gripped_object_id when is_grab_action is true and is_release_action
\* false, and no field when both are false.
C22_ActionDataShape ==
    pc = "extract_done" /\ last_row.kind = "grabReleaseObject" =>
        LET keys == DOMAIN data.action_data
            t == last_row.tag
        IN  /\ data.action = "grabReleaseObject"
            /\ data.is_grab_action = last_row.grab
            /\ data.is_release_action = last_row.release
            /\ (keys = {"new_object_translation", "new_object_id", "object_handle",
                        "gripped_object_id"}) <=> data.is_release_action
            /\ data.is_release_action =>
                  /\ data.action_data.new_object_translation = Val("newObjectTranslation", t)
                  /\ data.action_data.new_object_id = Val("newObjectId", t)
                  /\ data.action_data.object_handle = Val("objectHandle", t)
            /\ data.is_grab_action /\ ~data.is_release_action =>
                  keys = {"gripped_object_id"}
            /\ ~data.is_grab_action /\ ~data.is_release_action => keys = {}
            /\ "gripped_object_id" \in keys =>
                  data.action_data.gripped_object_id = Val("metaGrippedObjectId", t)

\* C22 witness: a record has been extracted from a payload with both flags
\* true.
C22_Witness ==
    /\ pc = "extract_done"
    /\ last_row.kind = "grabReleaseObject"
    /\ last_row.grab
    /\ last_row.release
    /\ Has(data.action_data, "object_handle")

\* The elements the episodes written have under the composite name.
CompositeElements(name) ==
    UNION { { <<e, j>> : j \in {k \in 1..Len(output.episodes[e].reference_replay) :
                                    output.episodes[e].reference_replay[k].action = name} } :
            e \in 1..Len(output.episodes) }

\* C23 (as stated): when the batch has been written, the tally the
\* summary reports, the module's unique_action_combo_map, gives for the
\* composite name turnLeftturnRight the number of lists of three, over all
\* files, merged under that name.
C23_AsStated ==
    pc = "written" /\ CompositeElements("turnLeftturnRight") # {} =>
        /\ Has(unique_action_combo_map, "turnLeftturnRight")
        /\ unique_action_combo_map["turnLeftturnRight"] =
              Cardinality(CompositeElements("turnLeftturnRight"))

\* C24: the values registered are exactly 0 .. len - 1, each under one
\* name; no step removes a name or changes the value of a registered name;
\* and extend_action_space on a registered name fails its assertion and
\* leaves the mapping as it is.
C24_ActionSpace ==
    /\ [](/\ {known_actions[name] : name \in DOMAIN known_actions}
                = 0..(Cardinality(DOMAIN known_actions) - 1)
          /\ \A a, b \in DOMAIN known_actions :
                known_actions[a] = known_actions[b] => a = b
          /\ \A name \in {"STOP", "MOVE_FORWARD", "TURN_LEFT", "TURN_RIGHT",
                           "LOOK_UP", "LOOK_DOWN"} : name \in DOMAIN known_actions)
    /\ [][\A name \in DOMAIN known_actions :
             /\ name \in DOMAIN known_actions'
             /\ known_actions'[name] = known_actions[name]]_vars
    /\ [][call'.op = "extend_action_space" /\ call'.name \in DOMAIN known_actions =>
             /\ call'.raised = "AssertionError"
             /\ known_actions' = known_actions]_vars

\* C24 witness: after the two rearrangement actions and one more were
\* registered, extend_action_space on a registered name has failed.
C24_Witness ==
    /\ Cardinality(DOMAIN known_actions) = 9
    /\ "GRAB_RELEASE" \in DOMAIN known_actions
    /\ "MOVE_BACKWARD" \in DOMAIN known_actions
    /\ call.op = "extend_action_space"
    /\ call.raised = "AssertionError"
    /\ call.name = "GRAB_RELEASE"

\* C25 (as stated): after update_metric calls following reset_metric, the
\* metric is 1 if the simulator's gripped_object_id was not -1 at one of
\* these updates, and 0 otherwise.
C25_AsStated ==
    updates >= 1 => metric = (IF gripped_since_reset THEN 1 ELSE 0)

LeftRolloutLoop(w) == wpc[w] \in {"add", "reduce", "reset"}

\* C26: in each DD-PPO update a worker never performs more than num_steps
\* rollout steps; when it leaves the rollout loop it has performed exactly
\* num_steps steps, unless it has completed at least
\* SHORT_ROLLOUT_THRESHOLD x num_steps steps and the num_done it read
\* exceeds sync_frac x world_size; the loop is left on a step only in these
\* two cases, the value read being the shared counter's; and the worker adds
\* 1 to num_done exactly once per update, after leaving the loop.
C26_RolloutLoop ==
    /\ [](\A w \in DOMAIN wpc :
            /\ rollout_steps[w] <= NumSteps
            /\ LeftRolloutLoop(w) =>
                  \/ rollout_steps[w] = NumSteps
                  \/ /\ rollout_steps[w] * 100 >= NumSteps * SHORT_ROLLOUT_THRESHOLD
                     /\ num_done_read[w] * 10 > sync_frac * WorldSize
            /\ wpc[w] \in {"rollout", "add"} => adds[w] = 0
            /\ wpc[w] \in {"reduce", "reset"} => adds[w] = 1)
    /\ [][\A w \in DOMAIN wpc :
            /\ (wpc[w] = "rollout" /\ wpc'[w] # "rollout") =>
                  /\ wpc'[w] = "add"
                  /\ \/ rollout_steps'[w] = NumSteps
                     \/ /\ rollout_steps'[w] * 100 >= NumSteps * SHORT_ROLLOUT_THRESHOLD
                        /\ num_done_read'[w] = num_done
                        /\ num_done * 10 > sync_frac * WorldSize
            /\ adds'[w] # adds[w] =>
                  \/ /\ wpc[w] = "add"
                     /\ adds'[w] = adds[w] + 1
                     /\ num_done' = num_done + 1
                  \/ /\ wpc[w] = "update"
                     /\ adds'[w] = 0
            /\ (wpc[w] = "add" /\ wpc'[w] # "add") => adds'[w] = adds[w] + 1]_vars

\* A worker has left the rollout loop early in its second update and added
\* its 1, while another worker did all of its num_steps steps.
C26_Witness ==
    \E w, v \in DOMAIN wpc :
        /\ wpc[w] = "reduce" /\ update_no[w] = 1
        /\ rollout_steps[w] < NumSteps /\ adds[w] = 1
        /\ wpc[v] = "reduce" /\ rollout_steps[v] = NumSteps

\* The row kinds whose payload is a handleAction or stepPhysics event.
IsRecordRow(row) == row.kind \in {"handleAction", "grabReleaseObject", "stepPhysics"}

\* A record row is applied in the viewer stream to an episode without
\* reference_replay.
RecordRowBeforeSetEpisode ==
    /\ pc = "read"
    /\ n' = n + 1
    /\ row_raises(last_row', n') = "none"
    /\ viewer_step
    /\ IsRecordRow(last_row')
    /\ ~Has(episode, "reference_replay")

\* The rows end on an episode without reference_replay.
RowsEndBeforeSetEpisode ==
    /\ pc = "read"
    /\ n' = n
    /\ pc' # "read"
    /\ ~Has(episode, "reference_replay")

\* The conversion ends in a KeyError and the episode is left as it was.
EndsInKeyError ==
    /\ pc' = "error"
    /\ err' = "KeyError"
    /\ episode' = episode

\* C28: a handleAction or stepPhysics row applied in the viewer stream to an
\* episode without reference_replay ends the conversion in a KeyError and
\* leaves the episode as it was; when the rows end and no setEpisode row was
\* applied the conversion ends in a KeyError too; so post-processing is
\* reached and an episode returned only after a setEpisode row, and
\* reference_replay comes into being empty, by a setEpisode row only.
C28_NoSetEpisode ==
    /\ [](pc \in {"while", "inner", "append", "done"} =>
            (Has(episode, "reference_replay") /\ instruction_list # << >>))
    /\ [][(RecordRowBeforeSetEpisode => EndsInKeyError)
           /\ (RowsEndBeforeSetEpisode => EndsInKeyError)
           /\ ((~Has(episode, "reference_replay") /\ Has(episode', "reference_replay")) =>
                  (episode'.reference_replay = << >> /\ last_row'.kind = "setEpisode"))]_vars

\* A stepPhysics row of the viewer stream has ended the conversion of a
\* file in which no setEpisode row came before it.
C28_Witness ==
    /\ pc = "error" /\ err = "KeyError"
    /\ n >= 2 /\ viewer_step
    /\ last_row.kind = "stepPhysics"
    /\ ~Has(episode, "reference_replay")

\* post_process_episode has been called and has not returned.
PostProcessRunning ==
    \/ pc \in {"while", "inner", "append"}
    \/ pc = "error" /\ InPostProcess

\* C29: while post_process_episode runs, and when it has raised, its input
\* is the list it was called on (a copy of the episode's reference_replay,
\* line 192), record by record and field by field, and no step of the call,
\* the return included, changes the input.
C29_InputUnchanged ==
    /\ [](PostProcessRunning => reference_replay = episode.reference_replay)
    /\ [][(pc \in {"while", "inner", "append"}) =>
             (reference_replay' = reference_replay)]_vars

\* The call has returned after merging a run of two action records with
\* the physics record that ends it.
C29_Witness ==
    /\ pc = "done"
    /\ Len(reference_replay) = 3
    /\ Len(episode.reference_replay) = 1
    /\ IsPhysicsRecord(reference_replay[3])
    /\ episode.reference_replay[1] # reference_replay[3]

\* The outer iterations of post_process_episode begun so far.
OuterIterations ==
    Len(post_processed_ref_replay) + (IF pc \in {"inner", "append"} THEN 1 ELSE 0)

\* The indices of the input read so far are all different.
VisitedOnce == \A j, k \in 1..Len(visited) : visited[j] = visited[k] => j = k

\* The cursor moves forward by one on every iteration of the inner loop and
\* at the end of every iteration of the outer loop, and never otherwise.
CursorMovesForward ==
    /\ (pc = "inner" /\ pc' = "inner") => i' = i + 1
    /\ pc = "append" => (i' = i + 1 /\ pc' = "while")
    /\ i' # i => i' = i + 1

\* C30: post_process_episode terminates on every finite input: the cursor
\* stays within the input and moves forward by one on every iteration of
\* the inner loop and of the outer loop, no index of the input is read
\* twice, at most len(reference_replay) outer iterations are begun, and the
\* call ends, by returning or by raising.
C30_Terminates ==
    /\ [](/\ i <= Len(reference_replay)
          /\ VisitedOnce
          /\ Len(visited) <= Len(reference_replay)
          /\ OuterIterations <= Len(reference_replay))
    /\ [][CursorMovesForward]_vars
    /\ <>(pc \in {"done", "error"})

\* The call has returned on a list of four records after reading each of
\* them once, in two outer iterations.
C30_Witness ==
    /\ pc = "done"
    /\ Len(reference_replay) = 4
    /\ visited = <<0, 1, 2, 3>>
    /\ Len(post_processed_ref_replay) = 2
====
